---- MODULE Spec2Model ----
(***************************************************************************)
(* A model of gbpcli, the command line client of Gentoo Build Publisher:   *)
(* the GBP wrapper class (query, check, one method per GraphQL operation,  *)
(* api_to_build) and the entry point main.                                 *)
(*                                                                         *)
(* Python and JSON values are tagged records [t |-> type, v |-> payload],  *)
(* so that None, an empty list and a missing key stay distinguishable.     *)
(* The result of evaluating a piece of Python is an outcome: Return(v) or  *)
(* Raise(exception).  Every method is an operator from its arguments and   *)
(* the response the transport hands back to the list of POST calls it made *)
(* and its outcome.                                                        *)
(***************************************************************************)
EXTENDS Integers, Sequences, FiniteSets, TLC

\* ------------------------------------------------------------------ bounds
MaxCalls == 2       \* operation invocations in one behaviour
MaxBuilds == 3      \* length of the server's builds list
MaxItems == 3       \* length of the server's diff item list

\* --------------------------------------------------- Python / JSON values
None == [t |-> "null"]
JStr(s) == [t |-> "str", v |-> s]
JInt(n) == [t |-> "int", v |-> n]
JBool(b) == [t |-> "bool", v |-> b]
JList(s) == [t |-> "list", v |-> s]
JObj(f) == [t |-> "obj", v |-> f]
DateTime(n) == [t |-> "datetime", v |-> n]

EmptyDict == JObj([k \in {} |-> None])

\* Python truth value of a JSON value (the test of `if errors:`)
Truthy(x) ==
    CASE x.t = "null" -> FALSE
      [] x.t = "list" -> Len(x.v) > 0
      [] x.t = "obj" -> DOMAIN x.v # {}
      [] x.t = "str" -> x.v # ""
      [] x.t = "int" -> x.v # 0
      [] x.t = "bool" -> x.v
      [] OTHER -> TRUE

\* ----------------------------------------------------------------- outcomes
Return(x) == [exc |-> "none", value |-> x]
Raise(e) == [exc |-> e]
Raised(o) == o.exc # "none"

\* d.get(k): only a dict has the method
DictGet(d, k) ==
    IF d.t # "obj" THEN Raise("AttributeError")
    ELSE IF k \in DOMAIN d.v THEN Return(d.v[k]) ELSE Return(None)

\* Subscript as dict.get would do it: None for a missing key
Subscript_lenient(d, k) ==
    IF d.t # "obj" THEN Raise("TypeError")
    ELSE IF k \in DOMAIN d.v THEN Return(d.v[k]) ELSE Return([t |-> "null"])

\* d[k] with a string key
Subscript(d, k) ==
    IF d.t # "obj" THEN Raise("TypeError")
    ELSE IF k \in DOMAIN d.v THEN Return(d.v[k]) ELSE Raise("KeyError")

\* ------------------------------------------------------------- exceptions
\* APIError(errors, data): the error list is the exception's argument, the
\* data its attribute
APIError(errors, data) == [exc |-> "APIError", args |-> <<errors>>, data |-> data]

\* ------------------------------------------------------------ domain types
Build(name, number, info) == [name |-> name, number |-> number, info |-> info]

BuildInfo(keep, note, published, submitted, completed) ==
    [t |-> "BuildInfo", keep |-> keep, note |-> note, published |-> published,
     submitted |-> submitted, completed |-> completed]

\* Status with the values of REMOVED and ADDED exchanged
StatusMembers_swapped == [REMOVED |-> 1, CHANGED |-> 0, ADDED |-> -1]

\* class Status(IntEnum)
StatusMembers == [REMOVED |-> -1, CHANGED |-> 0, ADDED |-> 1]

StatusMember(n) == [t |-> "Status", v |-> n]

\* Attributes of the class Status that are not members: the docstring and
\* what the class inherits from int and from the enum machinery
StatusClassAttrs == {"__doc__", "__members__", "real", "mro"}

Change(item, status) == [item |-> item, status |-> status]

\* getattr(Status, name)
StatusGetattr(name) ==
    IF name.t # "str" THEN Raise("TypeError")
    ELSE IF name.v \in DOMAIN StatusMembers
         THEN Return(StatusMember(StatusMembers[name.v]))
    ELSE IF name.v \in StatusClassAttrs
         THEN Return([t |-> "attribute", v |-> name.v])
    ELSE Raise("AttributeError")

\* ------------------------------------------------------------------ queries
\* The GraphQL documents of the queries module, opaque to the client
queries ==
    [machines |-> "queries.machines", publish |-> "queries.publish",
     latest |-> "queries.latest", builds |-> "queries.builds",
     diff |-> "queries.diff", logs |-> "queries.logs",
     build |-> "queries.build", schedule_build |-> "queries.schedule_build",
     packages |-> "queries.packages", keep_build |-> "queries.keep_build",
     release_build |-> "queries.release_build"]

\* --------------------------------------------------------------------- URL
\* yarl.URL: an origin and the non-empty segments of the path
URL(origin, path) == [origin |-> origin, path |-> path]

DEFAULT_URL == URL("https://gbp", <<>>)

\* URL / segment
UrlJoin(u, segment) == URL(u.origin, Append(u.path, segment))

\* GBP.__init__: self.url
GBPUrl(u) == UrlJoin(u, "graphql")

\* GBP.headers
headers == [h \in {"Accept-Encoding"} |-> "gzip, deflate"]

\* ----------------------------------------------------------------- datetime
\* datetime.datetime.fromisoformat on the strings the model's server sends:
\* an ISO-8601 string parses to its instant, anything else is a ValueError,
\* a non-string a TypeError
IsoInstants ==
    [s \in {"2021-11-13T04:23:34", "2021-11-14T10:00:00"} |->
        IF s = "2021-11-13T04:23:34" THEN 1636777414 ELSE 1636884000]

fromisoformat(x) ==
    IF x.t # "str" THEN Raise("TypeError")
    ELSE IF x.v \in DOMAIN IsoInstants THEN Return(DateTime(IsoInstants[x.v]))
    ELSE Raise("ValueError")

\* ---------------------------------------------------------------- transport
\* self.session.post(self.url, json=json, headers=self.headers) as recorded
\* by the session: the positional arguments and the keyword arguments
PostCall(url, json) ==
    [args |-> <<url>>, kwargs |-> [json |-> json, headers |-> headers]]

\* What the transport hands back: post raises ConnectionError, or returns a
\* response with a status code whose json() returns the decoded body or
\* raises
Response(status_code, json) == Return([status_code |-> status_code, json |-> json])

\* Response.raise_for_status: HTTPError for a 4xx or 5xx status
raise_for_status(response) ==
    IF response.status_code >= 400 /\ response.status_code < 600
    THEN Raise("HTTPError") ELSE Return(None)

\* The result of a method: the POST calls it made and its outcome
Result(posts, out) == [posts |-> posts, out |-> out]

\* query sending the request a second time when the first attempt failed
query_retry(self, q, variables, post) ==
    LET call == [args |-> <<self.url>>,
                 kwargs |-> [json |-> [query |-> q, variables |-> variables],
                             headers |-> headers]]
        failed == Raised(post) \/ Raised(raise_for_status(post.value))
    IN  IF failed
        THEN [posts |-> <<call, call>>,
              out |-> IF Raised(post) THEN post ELSE Raise("HTTPError")]
        ELSE [posts |-> <<call>>,
              out |-> IF Raised(post.value.json) THEN post.value.json
                      ELSE IF post.value.json.value.t # "obj" THEN Raise("AttributeError")
                      ELSE Return(<<DictGet(post.value.json.value, "data").value,
                                    DictGet(post.value.json.value, "errors").value>>)]

\* GBP.query
query(self, q, variables, post) ==
    LET json == [query |-> q, variables |-> variables]
        posts == <<PostCall(self.url, json)>>
    IN  IF Raised(post) THEN Result(posts, post)
        ELSE LET response == post.value IN
             IF Raised(raise_for_status(response))
             THEN Result(posts, raise_for_status(response))
             ELSE IF Raised(response.json) THEN Result(posts, response.json)
             ELSE LET response_json == response.json.value
                      data == DictGet(response_json, "data")
                      errors == DictGet(response_json, "errors")
                  IN  IF Raised(data) THEN Result(posts, data)
                      ELSE Result(posts, Return(<<data.value, errors.value>>))

\* check raising only when no data came with the errors
check_partial(self, q, variables, post) ==
    LET r == query(self, q, variables, post) IN
    IF Raised(r.out) THEN r
    ELSE IF Truthy(r.out.value[2]) /\ r.out.value[1] = None
    THEN Result(r.posts, APIError(r.out.value[2], r.out.value[1]))
    ELSE Result(r.posts, Return(r.out.value[1]))

\* GBP.check
check(self, q, variables, post) ==
    LET r == query(self, q, variables, post) IN
    IF Raised(r.out) THEN r
    ELSE LET data == r.out.value[1]
             errors == r.out.value[2]
         IN  IF Truthy(errors) THEN Result(r.posts, APIError(errors, data))
             ELSE Result(r.posts, Return(data))

\* A list comprehension, given the outcome of its expression for each
\* element: the first exception ends it, otherwise it is the list of values
Comprehension(outs) ==
    LET bad == {i \in 1..Len(outs) : Raised(outs[i])} IN
    IF bad # {}
    THEN outs[CHOOSE i \in bad : \A j \in bad : i <= j]
    ELSE Return([i \in 1..Len(outs) |-> outs[i].value])

\* `for i in x`: the model's servers send a list or null where the client
\* iterates, and null is not iterable
Iterable(x) == x.t = "list"

Reverse(s) == [i \in 1..Len(s) |-> s[Len(s) + 1 - i]]

\* api_to_build with keep defaulted to False when the response lacks it
api_to_build_default(api_response) ==
    LET submitted == Subscript(api_response, "submitted")
        name == Subscript(api_response, "name")
        number == Subscript(api_response, "number")
        completed == DictGet(api_response, "completed")
        submitted_dt == fromisoformat(submitted.value)
        completed_dt == IF completed.value # None
                        THEN fromisoformat(completed.value) ELSE Return(None)
    IN  IF Raised(completed) THEN completed
        ELSE IF Raised(submitted) THEN submitted
        ELSE IF Raised(name) THEN name
        ELSE IF Raised(number) THEN number
        ELSE IF Raised(submitted_dt) THEN submitted_dt
        ELSE IF Raised(completed_dt) THEN completed_dt
        ELSE Return(Build(name.value, number.value,
                 BuildInfo(IF "keep" \in DOMAIN api_response.v
                           THEN api_response.v.keep ELSE JBool(FALSE),
                           DictGet(api_response, "notes").value,
                           DictGet(api_response, "published").value,
                           submitted_dt.value, completed_dt.value)))

\* ------------------------------------------------------------ api_to_build
\* GBP.api_to_build, in Python's order of evaluation
api_to_build(api_response) ==
    LET completed == DictGet(api_response, "completed")
        submitted == Subscript(api_response, "submitted")
        name == Subscript(api_response, "name")
        number == Subscript(api_response, "number")
        keep == DictGet(api_response, "keep")
        published == DictGet(api_response, "published")
        notes == DictGet(api_response, "notes")
        submitted_dt == fromisoformat(submitted.value)
        completed_dt == IF completed.value # None
                        THEN fromisoformat(completed.value) ELSE Return(None)
    IN  IF Raised(completed) THEN completed
        ELSE IF Raised(submitted) THEN submitted
        ELSE IF Raised(name) THEN name
        ELSE IF Raised(number) THEN number
        ELSE IF Raised(submitted_dt) THEN submitted_dt
        ELSE IF Raised(completed_dt) THEN completed_dt
        ELSE Return(Build(name.value, number.value,
                          BuildInfo(keep.value, notes.value, published.value,
                                    submitted_dt.value, completed_dt.value)))

\* --------------------------------------------------------------- operations
\* The variables of a Build-keyed operation without the number
BuildVariables_nameOnly(build) == JObj([name |-> build.name])

BuildVariables(build) == JObj([name |-> build.name, number |-> build.number])

MachineVariables(machine) == JObj([name |-> machine])

\* GBP.machines
machines_item(i) ==
    LET name == Subscript(i, "name")
        builds == Subscript(i, "builds")
    IN  IF Raised(name) THEN name
        ELSE IF Raised(builds) THEN builds
        ELSE Return(<<name.value, builds.value>>)

machines_map(data) ==
    LET m == Subscript(data, "machines") IN
    IF Raised(m) THEN m
    ELSE IF ~Iterable(m.value) THEN Raise("TypeError")
    ELSE Comprehension([i \in 1..Len(m.value.v) |-> machines_item(m.value.v[i])])

machines(self, post) ==
    LET r == check(self, queries.machines, None, post) IN
    IF Raised(r.out) THEN r ELSE Result(r.posts, machines_map(r.out.value))

\* GBP.publish
publish_map(data) == Return(None)

publish(self, build, post) ==
    LET r == check(self, queries.publish, BuildVariables(build), post) IN
    IF Raised(r.out) THEN r ELSE Result(r.posts, publish_map(r.out.value))

\* GBP.latest
latest_map(machine, data) ==
    LET latest == Subscript(data, "latest") IN
    IF Raised(latest) THEN latest
    ELSE IF latest.value = None THEN Return(None)
    ELSE LET number == Subscript(latest.value, "number") IN
         IF Raised(number) THEN number
         ELSE Return(Build(machine, number.value, None))

latest(self, machine, post) ==
    LET r == check(self, queries.latest, MachineVariables(machine), post) IN
    IF Raised(r.out) THEN r ELSE Result(r.posts, latest_map(machine, r.out.value))

\* builds keeping the server's order
builds_map_unreversed(data) ==
    LET b == Subscript(data, "builds") IN
    IF Raised(b) THEN b
    ELSE IF b.value.t # "list" THEN Raise("AttributeError")
    ELSE Comprehension([i \in 1..Len(b.value.v) |-> api_to_build(b.value.v[i])])

\* GBP.builds
builds_map(data) ==
    LET builds == Subscript(data, "builds") IN
    IF Raised(builds) THEN builds
    ELSE IF builds.value.t # "list" THEN Raise("AttributeError")
    ELSE LET reversed == Reverse(builds.value.v) IN
         Comprehension([i \in 1..Len(reversed) |-> api_to_build(reversed[i])])

builds(self, machine, post) ==
    LET r == check(self, queries.builds, MachineVariables(machine), post) IN
    IF Raised(r.out) THEN r ELSE Result(r.posts, builds_map(r.out.value))

\* GBP.diff
diff_variables(machine, left, right) ==
    JObj([left |-> JObj([name |-> machine, number |-> left]),
          right |-> JObj([name |-> machine, number |-> right])])

diff_item(i) ==
    LET item == Subscript(i, "item")
        status_name == Subscript(i, "status")
        status == StatusGetattr(status_name.value)
    IN  IF Raised(item) THEN item
        ELSE IF Raised(status_name) THEN status_name
        ELSE IF Raised(status) THEN status
        ELSE Return(Change(item.value, status.value))

diff_map(data) ==
    LET d == Subscript(data, "diff")
        l == Subscript(d.value, "left")
        r == Subscript(d.value, "right")
        items == Subscript(d.value, "items")
        left == api_to_build(l.value)
        right == api_to_build(r.value)
        changes == IF ~Iterable(items.value) THEN Raise("TypeError")
                   ELSE Comprehension([i \in 1..Len(items.value.v) |->
                                          diff_item(items.value.v[i])])
    IN  IF Raised(d) THEN d
        ELSE IF Raised(l) THEN l
        ELSE IF Raised(left) THEN left
        ELSE IF Raised(r) THEN r
        ELSE IF Raised(right) THEN right
        ELSE IF Raised(items) THEN items
        ELSE IF Raised(changes) THEN changes
        ELSE Return(<<left.value, right.value, changes.value>>)

diff(self, machine, left, right, post) ==
    LET r == check(self, queries.diff, diff_variables(machine, left, right), post) IN
    IF Raised(r.out) THEN r ELSE Result(r.posts, diff_map(r.out.value))

\* logs without the test for a null build
logs_map_unguarded(data) ==
    LET b == Subscript(data, "build") IN
    IF Raised(b) THEN b ELSE Subscript(b.value, "logs")

\* GBP.logs
logs_map(data) ==
    LET build == Subscript(data, "build") IN
    IF Raised(build) THEN build
    ELSE IF build.value = None THEN Return(None)
    ELSE Subscript(build.value, "logs")

logs(self, build, post) ==
    LET r == check(self, queries.logs, BuildVariables(build), post) IN
    IF Raised(r.out) THEN r ELSE Result(r.posts, logs_map(r.out.value))

\* GBP.get_build_info
get_build_info_map(data) ==
    LET build == Subscript(data, "build") IN
    IF Raised(build) THEN build
    ELSE IF build.value = None THEN Return(None)
    ELSE api_to_build(build.value)

get_build_info(self, build, post) ==
    LET r == check(self, queries.build, BuildVariables(build), post) IN
    IF Raised(r.out) THEN r ELSE Result(r.posts, get_build_info_map(r.out.value))

\* GBP.build
build_map(response) == Subscript(response, "scheduleBuild")

build(self, name, post) ==
    LET r == check(self, queries.schedule_build, MachineVariables(name), post) IN
    IF Raised(r.out) THEN r ELSE Result(r.posts, build_map(r.out.value))

\* GBP.packages
packages_map(data) == Subscript(data, "packages")

packages(self, b, post) ==
    LET r == check(self, queries.packages, BuildVariables(b), post) IN
    IF Raised(r.out) THEN r ELSE Result(r.posts, packages_map(r.out.value))

\* GBP.keep
keep_map(data) == Subscript(data, "keepBuild")

keep(self, b, post) ==
    LET r == check(self, queries.keep_build, BuildVariables(b), post) IN
    IF Raised(r.out) THEN r ELSE Result(r.posts, keep_map(r.out.value))

\* GBP.release
release_map(data) == Subscript(data, "releaseBuild")

release(self, b, post) ==
    LET r == check(self, queries.release_build, BuildVariables(b), post) IN
    IF Raised(r.out) THEN r ELSE Result(r.posts, release_map(r.out.value))

\* ------------------------------------------------------------------- main
\* A subcommand's handler(args, gbp): it calls one operation of the client,
\* lets an exception of the operation propagate, and otherwise returns its
\* exit status (1 when the operation found nothing to show)
handler(r) ==
    IF Raised(r.out) THEN r
    ELSE Result(r.posts, Return(IF r.out.value = None THEN 1 ELSE 0))

\* What main catches
MainCaught == {"APIError", "HTTPError"}

\* str(error) of a caught exception
ErrorStr(e) == IF e.exc = "APIError" THEN [str |-> e.args] ELSE [str |-> e.exc]

\* main, from the parsed arguments on: has_func is hasattr(args, "func"), h
\* the run of args.func(args, gbp).  The outcome is main's return value or
\* the exception that leaves main; stderr is what main printed there
main(has_func, h) ==
    IF ~has_func
    THEN [posts |-> <<>>, out |-> Return(1), stderr |-> <<[str |-> "help"]>>]
    ELSE IF Raised(h.out) /\ h.out.exc \in MainCaught
    THEN [posts |-> h.posts, out |-> Return(1), stderr |-> <<ErrorStr(h.out)>>]
    ELSE [posts |-> h.posts, out |-> h.out, stderr |-> <<>>]

\* ------------------------------------------------------- the server's side
Missing == [t |-> "missing"]

\* A JSON object with the keys of f whose value is not Missing
MkObj(f) == JObj([k \in {j \in DOMAIN f : f[j] # Missing} |-> f[k]])

\* Sequences over S of length at most n
BSeq(S, n) == UNION {[1..k -> S] : k \in 0..n}

Lighthouse == JStr("lighthouse")
Babette == JStr("babette")

Submitted1 == JStr("2021-11-13T04:23:34")
Submitted2 == JStr("2021-11-14T10:00:00")

\* Build objects as the server sends them: with every field, with the
\* fields a diff selects, with some of the optional fields, without the
\* required timestamp, with a timestamp that is not ISO-8601
ApiBuilds ==
    { MkObj([name |-> Lighthouse, number |-> JInt(1), submitted |-> Submitted1,
             completed |-> Submitted2, keep |-> JBool(TRUE),
             published |-> JBool(FALSE), notes |-> JStr("a note")]),
      MkObj([name |-> Lighthouse, number |-> JInt(2), submitted |-> Submitted2,
             completed |-> None, keep |-> JBool(FALSE),
             published |-> JBool(TRUE), notes |-> None]),
      MkObj([name |-> Lighthouse, number |-> JInt(3), submitted |-> Submitted2,
             completed |-> Missing, keep |-> Missing,
             published |-> Missing, notes |-> Missing]),
      MkObj([name |-> Lighthouse, number |-> JInt(4), submitted |-> Submitted1,
             completed |-> Missing, keep |-> JBool(TRUE),
             published |-> Missing, notes |-> Missing]),
      MkObj([name |-> Lighthouse, number |-> JInt(5), submitted |-> Missing,
             completed |-> Missing, keep |-> JBool(TRUE),
             published |-> JBool(TRUE), notes |-> Missing]),
      MkObj([name |-> Lighthouse, number |-> JInt(6), submitted |-> JStr("yesterday"),
             completed |-> Missing, keep |-> JBool(TRUE),
             published |-> JBool(TRUE), notes |-> Missing]) }

ApiBuild(n) == CHOOSE b \in ApiBuilds : b.v.number = JInt(n)

DiffBuilds == {ApiBuild(3), ApiBuild(5)}

DiffItems ==
    { MkObj([item |-> JStr("a"), status |-> JStr("ADDED")]),
      MkObj([item |-> JStr("b"), status |-> JStr("REMOVED")]),
      MkObj([item |-> JStr("c"), status |-> JStr("CHANGED")]),
      MkObj([item |-> JStr("d"), status |-> JStr("UNKNOWN")]),
      MkObj([item |-> JStr("e"), status |-> JStr("__doc__")]),
      MkObj([item |-> JStr("f"), status |-> Missing]) }

DiffItem(i) == CHOOSE d \in DiffItems : d.v.item = JStr(i)

\* The values of `errors` in a response body
ErrorsValues == {Missing, None, JList(<<>>), JList(<<JStr("Build not found")>>)}

\* The values of `data` that carry nothing for any operation
NoData == {Missing, None, EmptyDict}

\* The data of the answers to each operation
MachinesData ==
    { JObj([machines |-> JList(m)]) :
        m \in { <<>>,
                <<JObj([name |-> Lighthouse, builds |-> JInt(3)]),
                  JObj([name |-> Babette, builds |-> JInt(1)])>>,
                <<JObj([name |-> Babette])>> } }

PublishData == {JObj([publish |-> None])}

LatestData ==
    { JObj([latest |-> l]) : l \in {None, JObj([number |-> JInt(2)]), EmptyDict} }

BuildsData ==
    { JObj([builds |-> b]) :
        b \in {None, JList(<<ApiBuild(2), ApiBuild(1)>>), JList(<<ApiBuild(3), ApiBuild(5)>>)} }

DiffData ==
    { JObj([diff |-> JObj([left |-> ApiBuild(3), right |-> ApiBuild(3), items |-> JList(i)])]) :
        i \in { <<DiffItem("a"), DiffItem("b")>>, <<DiffItem("d")>>, <<DiffItem("e")>> } }

LogsData ==
    { JObj([build |-> b]) :
        b \in {None, JObj([logs |-> JStr("This is a test!")]), EmptyDict} }

BuildData == { JObj([build |-> b]) : b \in ApiBuilds \cup {None} }

ScheduleBuildData == {JObj([scheduleBuild |-> JStr("/job/lighthouse/1")])}

PackagesData ==
    { JObj([packages |-> p]) : p \in {None, JList(<<JStr("app-editors/vim-8.2")>>)} }

KeepData == {JObj([keepBuild |-> JObj([keep |-> JBool(TRUE)])])}

ReleaseData == {JObj([releaseBuild |-> JObj([keep |-> JBool(FALSE)])])}

\* A 200 response whose body is the JSON object with the given data and errors
Answer(d, e) == Response(200, Return(MkObj([data |-> d, errors |-> e])))

\* What session.post can do for a server that answers with one of the given
\* data: fail to connect, answer with an error status, answer 200 with a body
\* that is not JSON or not a JSON object, or answer 200 with a GraphQL body
\* (without `errors` for each of the data, with every value of `errors` next
\* to null data and to one of the data)
Posts(Data) ==
    { Raise("ConnectionError"),
      Response(404, Raise("JSONDecodeError")),
      Response(200, Raise("JSONDecodeError")),
      Response(200, Return(JList(<<>>))) }
    \cup { Answer(d, Missing) : d \in NoData \cup Data }
    \cup { Answer(d, e) : d \in {None, CHOOSE x \in Data : TRUE},
                          e \in ErrorsValues \ {Missing} }
    \cup { Answer(Missing, JList(<<JStr("Build not found")>>)) }

BaseUrls == {DEFAULT_URL, URL("http://test.invalid", <<"api">>)}

\* The answers an operation is applied to, one at a time: every list of
\* builds and every diff within the bounds
ServerAnswers ==
    { [op |-> "builds", data |-> JObj([builds |-> JList(b)])] :
        b \in BSeq(ApiBuilds \cup {None}, MaxBuilds) }
    \cup { [op |-> "diff",
            data |-> JObj([diff |-> JObj([left |-> l, right |-> ApiBuild(3),
                                          items |-> JList(i)])])] :
             l \in DiffBuilds, i \in BSeq(DiffItems, MaxItems) }
    \cup { [op |-> "latest", data |-> d] : d \in LatestData }
    \cup { [op |-> "get_build_info", data |-> d] : d \in BuildData }

\* -------------------------------------------------------------------- state
VARIABLES
    gbp,            \* the client: its endpoint url
    session_posts,  \* the calls of session.post so far, in order
    ncalls,         \* the number of operations invoked so far
    last,           \* the last invocation: operation, arguments, what the
                    \* transport did, the operation's outcome
    proc,           \* the last run of main: its outcome and its stderr
    server          \* the answer the server is set up to give, if it is

vars == <<gbp, session_posts, ncalls, last, proc, server>>

NoArgs == [none |-> TRUE]

InitClient ==
    /\ gbp \in {[url |-> GBPUrl(u)] : u \in BaseUrls}
    /\ session_posts = <<>>
    /\ ncalls = 0
    /\ last = [op |-> "none"]
    /\ proc = [state |-> "none"]

Init ==
    /\ InitClient
    /\ server = [op |-> "any"]

\* An operation was invoked with args, the transport did post, the method
\* made the calls r.posts and ended with r.out
Invoke(op, args, post, r) ==
    /\ ncalls < MaxCalls
    /\ session_posts' = session_posts \o r.posts
    /\ ncalls' = ncalls + 1
    /\ last' = [op |-> op, args |-> args, post |-> post, out |-> r.out]
    /\ UNCHANGED <<gbp, proc, server>>

Machines ==
    \E post \in Posts(MachinesData) :
        Invoke("machines", NoArgs, post, machines(gbp, post))

Publish ==
    \E b \in {Build(Babette, JInt(2), None)}, post \in Posts(PublishData) :
        Invoke("publish", [build |-> b], post, publish(gbp, b, post))

Latest ==
    \E m \in {Babette}, post \in Posts(LatestData) :
        Invoke("latest", [machine |-> m], post, latest(gbp, m, post))

Builds ==
    \E m \in {Lighthouse}, post \in Posts(BuildsData) :
        Invoke("builds", [machine |-> m], post, builds(gbp, m, post))

Diff ==
    \E m \in {Lighthouse}, l \in {JInt(5)}, r \in {JInt(3)}, post \in Posts(DiffData) :
        Invoke("diff", [machine |-> m, left |-> l, right |-> r], post,
               diff(gbp, m, l, r, post))

Logs ==
    \E b \in {Build(Lighthouse, JInt(1), None)}, post \in Posts(LogsData) :
        Invoke("logs", [build |-> b], post, logs(gbp, b, post))

GetBuildInfo ==
    \E b \in {Build(Lighthouse, JInt(1), None)}, post \in Posts(BuildData) :
        Invoke("get_build_info", [build |-> b], post, get_build_info(gbp, b, post))

ScheduleBuild ==
    \E m \in {Babette}, post \in Posts(ScheduleBuildData) :
        Invoke("build", [machine |-> m], post, build(gbp, m, post))

Packages ==
    \E b \in {Build(Babette, JInt(2), None)}, post \in Posts(PackagesData) :
        Invoke("packages", [build |-> b], post, packages(gbp, b, post))

Keep ==
    \E b \in {Build(Lighthouse, JInt(1), None)}, post \in Posts(KeepData) :
        Invoke("keep", [build |-> b], post, keep(gbp, b, post))

Release ==
    \E b \in {Build(Babette, JInt(2), None)}, post \in Posts(ReleaseData) :
        Invoke("release", [build |-> b], post, release(gbp, b, post))

\* A caller's own query run through check
Check ==
    \E q \in {queries.publish}, v \in {None, MachineVariables(Babette)},
       post \in Posts(PublishData) :
        Invoke("check", [query |-> q, variables |-> v], post, check(gbp, q, v, post))

\* gbp with a subcommand: main runs the handler, which calls logs
Main ==
    \E b \in {Build(Lighthouse, JInt(1), None)}, post \in Posts(LogsData) :
        LET h == handler(logs(gbp, b, post))
            m == main(TRUE, h)
        IN  /\ ncalls < MaxCalls
            /\ session_posts' = session_posts \o m.posts
            /\ ncalls' = ncalls + 1
            /\ last' = [op |-> "logs", args |-> [build |-> b], post |-> post,
                        out |-> logs(gbp, b, post).out]
            /\ proc' = [state |-> "done", func |-> TRUE, handler |-> h.out,
                        out |-> m.out, stderr |-> m.stderr]
            /\ UNCHANGED <<gbp, server>>

\* gbp without a subcommand: main prints the help
MainHelp ==
    LET m == main(FALSE, Result(<<>>, Return(0))) IN
    /\ proc' = [state |-> "done", func |-> FALSE, out |-> m.out, stderr |-> m.stderr]
    /\ UNCHANGED <<gbp, session_posts, ncalls, last, server>>

Next ==
    \/ Machines
    \/ Publish
    \/ Latest
    \/ Builds
    \/ Diff
    \/ Logs
    \/ GetBuildInfo
    \/ ScheduleBuild
    \/ Packages
    \/ Keep
    \/ Release
    \/ Check
    \/ Main
    \/ MainHelp

Spec == Init /\ [][Next]_vars

\* ------------------------------------------- one operation on one answer
\* The operations that return Builds, each applied to an answer drawn from
\* every answer within the bounds
AnswerInit ==
    /\ InitClient
    /\ server \in ServerAnswers

BuildsOfAnswer ==
    /\ server.op = "builds"
    /\ LET post == Answer(server.data, Missing) IN
       Invoke("builds", [machine |-> Lighthouse], post, builds(gbp, Lighthouse, post))

DiffOfAnswer ==
    /\ server.op = "diff"
    /\ LET post == Answer(server.data, Missing) IN
       Invoke("diff", [machine |-> Lighthouse, left |-> JInt(5), right |-> JInt(3)],
              post, diff(gbp, Lighthouse, JInt(5), JInt(3), post))

LatestOfAnswer ==
    /\ server.op = "latest"
    /\ LET post == Answer(server.data, Missing) IN
       Invoke("latest", [machine |-> Lighthouse], post, latest(gbp, Lighthouse, post))

GetBuildInfoOfAnswer ==
    /\ server.op = "get_build_info"
    /\ LET post == Answer(server.data, Missing)
           b == Build(Lighthouse, JInt(1), None)
       IN  Invoke("get_build_info", [build |-> b], post, get_build_info(gbp, b, post))

AnswerNext ==
    \/ BuildsOfAnswer
    \/ DiffOfAnswer
    \/ LatestOfAnswer
    \/ GetBuildInfoOfAnswer

AnswerSpec == AnswerInit /\ [][AnswerNext]_vars

\* ------------------------------------------------------------- properties
\* What the last invocation's response says, when it arrived with a 2xx
\* status and a JSON object as its body
Transported == last.op # "none" /\ ~Raised(last.post)
               /\ ~Raised(raise_for_status(last.post.value))
               /\ ~Raised(last.post.value.json)
               /\ last.post.value.json.value.t = "obj"

Body == last.post.value.json.value.v

HasErrors == "errors" \in DOMAIN Body /\ Body.errors.t = "list" /\ Len(Body.errors.v) > 0

BodyData == IF "data" \in DOMAIN Body THEN Body.data ELSE None

\* C1: check raises APIError exactly when the response's errors is a
\* non-empty list, whether or not data came with it; the error carries the
\* error list and the data as they came; otherwise check returns the data
\* as it came and raises nothing.  (Every operation raises APIError in
\* exactly the same case.)
C1_CheckRaisesIffErrors ==
    Transported =>
        /\ (last.out.exc = "APIError") <=> HasErrors
        /\ HasErrors => last.out = [exc |-> "APIError", args |-> <<Body.errors>>,
                                    data |-> BodyData]
        /\ (last.op = "check" /\ ~HasErrors) => last.out = Return(BodyData)

C1_Witness ==
    /\ Transported
    /\ last.op = "check"
    /\ HasErrors
    /\ BodyData # None
    /\ last.out.exc = "APIError"
    /\ last.out.data = BodyData

\* C2: every invocation of an operation sends exactly one POST, whatever its
\* outcome: after n invocations n requests were sent
C2_OneRequestPerOperation == Len(session_posts) = ncalls

C2_Witness ==
    /\ ncalls = 2
    /\ Len(session_posts) = 2
    /\ last.out.exc \in {"HTTPError", "ConnectionError", "APIError"}

\* The query and the variables each operation is to send
ExpectedQuery ==
    CASE last.op = "machines" -> "queries.machines"
      [] last.op = "publish" -> "queries.publish"
      [] last.op = "latest" -> "queries.latest"
      [] last.op = "builds" -> "queries.builds"
      [] last.op = "diff" -> "queries.diff"
      [] last.op = "logs" -> "queries.logs"
      [] last.op = "get_build_info" -> "queries.build"
      [] last.op = "build" -> "queries.schedule_build"
      [] last.op = "packages" -> "queries.packages"
      [] last.op = "keep" -> "queries.keep_build"
      [] last.op = "release" -> "queries.release_build"
      [] last.op = "check" -> last.args.query

ExpectedVariables ==
    CASE last.op = "machines" -> [t |-> "null"]
      [] last.op \in {"latest", "builds", "build"} ->
            [t |-> "obj", v |-> [name |-> last.args.machine]]
      [] last.op \in {"publish", "logs", "get_build_info", "packages", "keep", "release"} ->
            [t |-> "obj", v |-> [name |-> last.args.build.name,
                                 number |-> last.args.build.number]]
      [] last.op = "diff" ->
            [t |-> "obj",
             v |-> [left |-> [t |-> "obj", v |-> [name |-> last.args.machine,
                                                   number |-> last.args.left]],
                    right |-> [t |-> "obj", v |-> [name |-> last.args.machine,
                                                    number |-> last.args.right]]]]
      [] last.op = "check" -> last.args.variables

TopField ==
    CASE last.op = "latest" -> "latest"
      [] last.op \in {"logs", "get_build_info"} -> "build"

\* C5: without errors, latest, logs and get_build_info return None and raise
\* nothing when their top-level field is null; when it is not they return
\* the mapped value (a Build without info, the log text, a Build with info)
C5_NullFieldIsNone ==
    (/\ Transported
     /\ last.op \in {"latest", "logs", "get_build_info"}
     /\ ~HasErrors
     /\ BodyData.t = "obj"
     /\ TopField \in DOMAIN BodyData.v) =>
        LET field == BodyData.v[TopField] IN
        /\ field = None => last.out = Return(None)
        /\ (last.op = "latest" /\ field # None /\ "number" \in DOMAIN field.v) =>
              last.out = Return([name |-> last.args.machine, number |-> field.v.number,
                                 info |-> None])
        /\ (last.op = "logs" /\ field # None /\ "logs" \in DOMAIN field.v) =>
              last.out = Return(field.v.logs)
        /\ (last.op = "get_build_info" /\ field # None
              /\ {"name", "number", "submitted"} \subseteq DOMAIN field.v
              /\ field.v.submitted.v \in DOMAIN IsoInstants) =>
              /\ ~Raised(last.out)
              /\ last.out.value.name = field.v.name
              /\ last.out.value.number = field.v.number
              /\ last.out.value.info # None
              /\ last.out.value.info.submitted.t = "datetime"

C5_Witness ==
    /\ Transported
    /\ last.op = "logs"
    /\ ~HasErrors
    /\ BodyData.t = "obj"
    /\ "build" \in DOMAIN BodyData.v
    /\ BodyData.v.build = None
    /\ last.out = Return(None)

\* C9: when the handler fails with a transport error (an error status or a
\* failed connection) or with an API error, main writes a message to stderr
\* and returns 1, and neither leaves main; when the handler returns, main
\* returns the handler's status
C9_MainConvertsErrors ==
    (proc.state = "done" /\ proc.func) =>
        /\ (proc.handler.exc \in {"HTTPError", "ConnectionError", "APIError"}) =>
              (proc.out = Return(1) /\ Len(proc.stderr) = 1)
        /\ ~Raised(proc.handler) => proc.out = proc.handler

\* The key of the data the operation subscripts
DataKey ==
    CASE last.op = "machines" -> "machines"
      [] last.op = "latest" -> "latest"
      [] last.op = "builds" -> "builds"
      [] last.op = "diff" -> "diff"
      [] last.op \in {"logs", "get_build_info"} -> "build"
      [] last.op = "build" -> "scheduleBuild"
      [] last.op = "packages" -> "packages"
      [] last.op = "keep" -> "keepBuild"
      [] last.op = "release" -> "releaseBuild"

\* C10 as stated: an operation ends with its result, a transport error or an
\* APIError, and with its result whenever the response arrived without
\* errors
C10_ThreeOutcomes ==
    last.op # "none" =>
        /\ last.out.exc \in {"none", "HTTPError", "ConnectionError", "APIError"}
        /\ (Transported /\ ~HasErrors) => ~Raised(last.out)

\* C10 amended: an operation ends with its result, a transport error, an
\* APIError, or a failure to decode or to map the payload; on a response
\* that arrived without errors publish and check return, and any other
\* operation fails with TypeError when the data is null or absent and with
\* KeyError when the data is an object without the operation's key
C10_OutcomesWithMappingFailures ==
    last.op # "none" =>
        /\ last.out.exc \in {"none", "HTTPError", "ConnectionError", "APIError",
                             "JSONDecodeError", "AttributeError", "TypeError",
                             "KeyError", "ValueError"}
        /\ (Transported /\ ~HasErrors) =>
              IF last.op \in {"publish", "check"} THEN ~Raised(last.out)
              ELSE /\ BodyData = None => last.out = [exc |-> "TypeError"]
                   /\ (BodyData.t = "obj" /\ DataKey \notin DOMAIN BodyData.v) =>
                         last.out = [exc |-> "KeyError"]

C10_Witness ==
    /\ Transported
    /\ ~HasErrors
    /\ last.op = "machines"
    /\ BodyData.t = "obj"
    /\ DOMAIN BodyData.v = {}
    /\ last.out = [exc |-> "KeyError"]

\* The last invocation returned, on the answer the server was set up with
Answered(op) == last.op = op /\ server.op = op /\ ~Raised(last.out)

\* C4: the list builds returns has the length of the server's list and its
\* i-th element is the mapping of the server's element at the mirrored
\* position: the order is the reverse of the server's, and reversing the
\* output gives the server's order back
C4_BuildsReversed ==
    Answered("builds") =>
        LET srv == server.data.v.builds.v
            out == last.out.value
            n == Len(srv)
        IN  /\ Len(out) = n
            /\ \A i \in 1..n : Return(out[i]) = api_to_build(srv[n + 1 - i])
            /\ \A i \in 1..n : out[n + 1 - i].number = srv[i].v.number

C4_Witness ==
    /\ Answered("builds")
    /\ Len(last.out.value) = 3
    /\ last.out.value[1].number = server.data.v.builds.v[3].v.number
    /\ last.out.value[3].number = server.data.v.builds.v[1].v.number
    /\ last.out.value[1].number # last.out.value[3].number

\* C6: diff returns one Change per item of the server, in the server's
\* order, with the item's path and the status its name stands for:
\* REMOVED -1, CHANGED 0, ADDED 1
C6_ChangesInServerOrder ==
    Answered("diff") =>
        LET items == server.data.v.diff.v.items.v
            changes == last.out.value[3]
        IN  /\ Len(changes) = Len(items)
            /\ \A i \in 1..Len(items) :
                  /\ changes[i].item = items[i].v.item
                  /\ items[i].v.status.v = "REMOVED" => changes[i].status = [t |-> "Status", v |-> -1]
                  /\ items[i].v.status.v = "CHANGED" => changes[i].status = [t |-> "Status", v |-> 0]
                  /\ items[i].v.status.v = "ADDED" => changes[i].status = [t |-> "Status", v |-> 1]

C6_Witness ==
    /\ Answered("diff")
    /\ Len(last.out.value[3]) = 3
    /\ last.out.value[3][1] = [item |-> JStr("b"), status |-> [t |-> "Status", v |-> -1]]
    /\ last.out.value[3][2] = [item |-> JStr("a"), status |-> [t |-> "Status", v |-> 1]]
    /\ last.out.value[3][3] = last.out.value[3][2]

\* C7: when an item of the diff has a status that is none of REMOVED,
\* CHANGED, ADDED, diff fails with a lookup error and returns nothing: no
\* Change is produced whose status is not a member of Status
C7_UnknownStatusIsError ==
    (/\ last.op = "diff"
     /\ server.op = "diff"
     /\ server.data.v.diff.v.left = ApiBuild(3)) =>
        LET items == server.data.v.diff.v.items.v IN
        /\ (\E i \in 1..Len(items) :
               /\ "status" \in DOMAIN items[i].v
               /\ items[i].v.status.v \notin {"REMOVED", "CHANGED", "ADDED"}) =>
              last.out.exc \in {"AttributeError", "KeyError"}
        /\ ~Raised(last.out) =>
              \A i \in 1..Len(last.out.value[3]) : last.out.value[3][i].status.t = "Status"

\* The Builds the last invocation returned, each with the object of the
\* server it was mapped from
ReturnedBuilds ==
    IF last.op = "none" \/ server.op = "any" \/ Raised(last.out)
    THEN {}
    ELSE CASE last.op = "latest" ->
                IF last.out.value = None THEN {}
                ELSE {<<last.out.value, server.data.v.latest>>}
           [] last.op = "get_build_info" ->
                IF last.out.value = None THEN {}
                ELSE {<<last.out.value, server.data.v.build>>}
           [] last.op = "builds" ->
                { <<last.out.value[i],
                    server.data.v.builds.v[Len(last.out.value) + 1 - i]>> :
                    i \in 1..Len(last.out.value) }
           [] last.op = "diff" ->
                { <<last.out.value[1], server.data.v.diff.v.left>>,
                  <<last.out.value[2], server.data.v.diff.v.right>> }

\* C8 as stated: the info of every Build an operation returns is absent or
\* fully populated: keep and published booleans, submitted a timestamp
C8_InfoAbsentOrFull ==
    \A p \in ReturnedBuilds :
        \/ p[1].info = None
        \/ /\ p[1].info.keep.t = "bool"
           /\ p[1].info.published.t = "bool"
           /\ p[1].info.submitted.t = "datetime"

\* C8 amended: the info of every Build an operation returns is absent (for
\* latest) or holds a parsed submitted timestamp, and keep, published and
\* note as the server sent them: None for each the response lacks
C8_InfoAbsentOrAsSent ==
    \A p \in ReturnedBuilds :
        IF last.op = "latest" THEN p[1].info = None
        ELSE /\ p[1].info # None
             /\ p[1].info.submitted.t = "datetime"
             /\ \A k \in {"keep", "published"} :
                   p[1].info[k] = IF k \in DOMAIN p[2].v THEN p[2].v[k] ELSE None
             /\ p[1].info.note = IF "notes" \in DOMAIN p[2].v THEN p[2].v.notes ELSE None

C8_Witness ==
    /\ Answered("get_build_info")
    /\ last.out.value # None
    /\ "keep" \notin DOMAIN server.data.v.build.v
    /\ last.out.value.info.keep = None
    /\ last.out.value.info.submitted.t = "datetime"

====
